---------------------------- MODULE Spec2Model ----------------------------
(***************************************************************************)
(* Model of fabric-dbt-runner.                                             *)
(*                                                                         *)
(*  - src/dbtrunner.py: the line-streaming DbtRunner (log buffer, flush to *)
(*    the lakehouse file, failure classification, run / finish).           *)
(*  - src/fabric_dbt_runner/config.py: DbtConfig and get_dbt_args.         *)
(*  - src/fabric_dbt_runner/variable_library.py and the constructor of     *)
(*    src/fabric_dbt_runner/runner.py: the configuration loaded from the   *)
(*    variable library (environment variables).                            *)
(*                                                                         *)
(* Text is modelled by TLA+ strings, so formatting and joining are real    *)
(* concatenations and the classifier's tests are real substring tests.     *)
(* Console output (print) is write-only for the program and is left out.   *)
(***************************************************************************)
EXTENDS Integers, Sequences, FiniteSets, TLC

(***************************************************************************)
(* Bounds of the model.                                                    *)
(***************************************************************************)
MaxFlushEvery == 2      \* flush_every is drawn from 1..MaxFlushEvery
MaxCalls == 2           \* calls of log(), flush() and run() on one object

(***************************************************************************)
(* Values of the program.                                                  *)
(***************************************************************************)
None == "None"          \* Python None for failure_type and results
NoStartTime == -1       \* Python None for start_time

\* Child processes: what the child prints (each line is read with its
\* newline), its exit code (negative: killed by a signal) and the time it
\* takes, in tenths of a second.
Children ==
  { [ output |-> << >>, exit_code |-> 0, elapsed |-> 0 ],
    [ output |-> << "Compilation Error: syntax\n", "FAIL 3 tests\n" >>,
      exit_code |-> 1, elapsed |-> 12 ],
    [ output |-> << "Compilation Error: syntax\n", "FAIL 3 tests\n" >>,
      exit_code |-> 0, elapsed |-> 5 ],
    [ output |-> << "ok\n", "FAIL 3 tests\n" >>,
      exit_code |-> -9, elapsed |-> 0 ],
    [ output |-> << "ok\n" >>, exit_code |-> 2, elapsed |-> 5 ] }

NoChild == [ output |-> << >>, exit_code |-> 0, elapsed |-> 0 ]

UserMessages == {"note"}

MaxFragments == 2       \* fragments concatenated into a classifier input

\* Pieces of text the classifier is tried on: the four markers, parts of
\* markers, a lower-case marker and a marker inside a longer word.
Fragments ==
  { "", "Compilation Error", "Database Error", "Runtime Error", "FAIL",
    "Compilation ", "Error", "fail", "FAILED\n", "Runtime", " ok" }

\* Values a caller can pass for a directory or the target.
DirValues == {"", "/proj"}
TargetValues == {"", "prod"}

\* os.getcwd() and the HOME that os.path.expanduser sees ("None": no HOME).
CwdValues == {"/", "/work"}
HomeValues == {"None", "", "/home/u/"}

\* dbt variable mappings a caller can pass, as ordered key/value pairs.
IntVal(n) == [ kind |-> "int", n |-> n, s |-> "" ]
StrVal(t) == [ kind |-> "str", n |-> 0, s |-> t ]
VarsValues ==
  { << >>,
    << << "day", IntVal(7) >> >>,
    << << "env", StrVal("prod") >>, << "day", IntVal(7) >> >> }

\* Texts the library's `vars' variable can hold.  Well-formed ones are JSON
\* objects with string keys and integer or string values; the malformed ones
\* are no JSON at all.
WellFormedTexts ==
  { "{}", "{\"day\": 7}", " {\"env\" :\"prod\",\n \"day\":7 } ", "{\"day\": -12}" }
MalformedTexts ==
  { "", "not json", "{day: 7}", "{\"day\": 7", "{\"day\": 7,}", "{\"day\": 07}",
    "{\"day\": 7} x", "{'day': 7}", "{\"day\" 7}" }
VarsTexts == WellFormedTexts \cup MalformedTexts

\* Environment variables of the process, as name/value pairs in the order
\* os.environ lists them.  "-" stands for a variable that is not set.
Unset == "-"
LibraryValues ==
  [ project_dir : {Unset, "", "/proj"},
    target : {Unset, "prod"},
    vars : {Unset} \cup VarsTexts ]
OtherVariables ==
  { << >>,
    << << "PATH", "/bin" >>, << "dbt_config_vars", "{\"day\": 7}" >> >>,
    << << "DBT_CONFIG_Profiles_Dir", "/prof" >> >> }
Setting(name, value) ==
  IF value = Unset THEN << >> ELSE << << name, value >> >>
Environments ==
  { other \o Setting("DBT_CONFIG_PROJECT_DIR", v.project_dir)
          \o Setting("DBT_CONFIG_VARS", v.vars)
          \o Setting("DBT_CONFIG_TARGET", v.target) :
      v \in LibraryValues, other \in OtherVariables }

VARIABLES
  flush_every,    \* self.flush_every
  buffer,         \* self.buffer: sequence of formatted entries
  persisted_log,  \* self.persisted_log: everything flushed so far
  success,        \* self.success
  failure_type,   \* self.failure_type
  start_time,     \* self.start_time
  pc,             \* "idle", or "reading" while run() is in its read loop
  outcome,        \* how the last run() call ended
  return_code,    \* exit code seen by the last run() that reached wait()
  clock,          \* wall clock, tenths of a second
  remote,         \* the sink: the file at lakehouse_log_path
  puts,           \* history: the content of every notebookutils.fs.put call
  appended,       \* history: every entry log() appended, in order
  child,          \* the child process, with the output not read yet
  fed,            \* history: every child line read by run(), in order
  explicit,       \* history: direct flush() calls (not the one inside log)
  escaped,        \* history: a sink error left flush() and reached a caller
  recovered,      \* history: a remote write succeeded after one that failed
  calls,          \* history: calls of log(), flush() and run() by the owner
  runs,           \* history: run() calls
  input_line,     \* classifier: the input line
  category,       \* classifier: the result, "unset" before the call
  config_dict,    \* config: the values the caller passes
  environ,        \* config: the process environment (cwd, HOME, variables)
  library_variables,  \* config: self._variables of the VariableLibraryManager
  config,         \* config: the DbtConfig object
  args,           \* config: the result of get_dbt_args
  cfg_pc          \* config: "input", "built" or "rendered"

runnerVars == << flush_every, buffer, persisted_log, success, failure_type,
                 start_time, pc, outcome, return_code, clock, remote, puts,
                 appended, child, fed, explicit, escaped, recovered, calls,
                 runs >>
classifyVars == << input_line, category >>
configVars == << config_dict, environ, library_variables, config, args,
                cfg_pc >>

vars == << runnerVars, classifyVars, configVars >>

-----------------------------------------------------------------------------
(***************************************************************************)
(* Text helpers.                                                           *)
(***************************************************************************)
RECURSIVE Join(_)
\* "".join(seq)
Join(seq) == IF seq = << >> THEN "" ELSE Head(seq) \o Join(Tail(seq))

\* needle in text
Contains(needle, text) ==
  \E i \in 1..(Len(text) - Len(needle) + 1) :
     SubSeq(text, i, i + Len(needle) - 1) = needle

TwoDigits(n) == IF n < 10 THEN "0" \o ToString(n) ELSE ToString(n)

\* datetime.now().strftime("%Y-%m-%d %H:%M:%S"): second precision
Strftime(t) == "2026-01-01 00:00:" \o TwoDigits(t \div 10)

\* f"{duration:.1f}s" of a duration given in tenths of a second
FormatDuration(d) == ToString(d \div 10) \o "." \o ToString(d % 10) \o "s"

\* str(bool)
PyStr(b) == IF b THEN "True" ELSE "False"

RECURSIVE Repeat(_, _)
\* text * n
Repeat(text, n) == IF n <= 0 THEN "" ELSE text \o Repeat(text, n - 1)

SeparatorWidth == 40
Separator == Repeat("=", SeparatorWidth)

-----------------------------------------------------------------------------
(***************************************************************************)
(* The log sink.  The operators work on a record s of the fields a call    *)
(* can change.  `fail' is the set of remote writes of this call (numbered  *)
(* from 1) on which notebookutils.fs.put raises.  s.raised says that an    *)
(* exception is unwinding the call: the statements after it are skipped.   *)
(***************************************************************************)
NoFile == [ exists |-> FALSE, content |-> "" ]

Self ==
  [ buffer |-> buffer, persisted_log |-> persisted_log, remote |-> remote,
    puts |-> puts, appended |-> appended, explicit |-> explicit, nput |-> 0,
    raised |-> FALSE ]

\* notebookutils.fs.put(path, content, overwrite=True) on the file
Put(file, content, ok) ==
  IF ok THEN [ exists |-> TRUE, content |-> content ] ELSE file

\* variant: no except clause, a failed put leaves flush()
Escapes_NoCatch(ok) == ~ok

\* the `except Exception' clause of flush(): does a failed put leave flush()
\* as an exception?  It is caught and printed.
Escapes(ok) == FALSE

\* variant: the flushed chunk replaces the log instead of extending it
Extended_ChunkOnly(persisted, chunk) == chunk

\* self.persisted_log += chunk
Extended(persisted, chunk) == persisted \o chunk

\* variant: no early return on an empty buffer
FlushBody_NoGuard(s, fail) ==
  LET cumulative == Extended(s.persisted_log, Join(s.buffer))
      k == s.nput + 1
  IN [ s EXCEPT !.buffer = << >>,
                !.persisted_log = cumulative,
                !.remote = Put(@, cumulative, k \notin fail),
                !.puts = Append(@, cumulative),
                !.nput = k ]

\* the body of flush()
FlushBody(s, fail) ==
  IF s.buffer = << >>
  THEN s
  ELSE LET chunk == Join(s.buffer)
           cumulative == Extended(s.persisted_log, chunk)
           k == s.nput + 1
           ok == k \notin fail
       IN [ s EXCEPT !.buffer = << >>,
                     !.persisted_log = cumulative,
                     !.remote = Put(@, cumulative, ok),
                     !.puts = Append(@, cumulative),
                     !.nput = k,
                     !.raised = Escapes(ok) ]

\* a direct call of flush()
flush(s, fail) ==
  IF s.raised THEN s
  ELSE FlushBody([ s EXCEPT !.explicit = @ + 1 ], fail)

\* variant: flushes one entry late
BufferFull_Late(n, threshold) == n > threshold

\* the test that makes log() flush
BufferFull(n, threshold) == n >= threshold

log(s, message, level, end, now, fail) ==
  LET formatted == "[" \o Strftime(now) \o "] [" \o level \o "] " \o message
      entry == formatted \o end
      s1 == [ s EXCEPT !.buffer = Append(@, entry),
                       !.appended = Append(@, entry) ]
  IN IF s.raised THEN s
     ELSE IF BufferFull(Len(s1.buffer), flush_every)
     THEN FlushBody(s1, fail)
     ELSE s1

\* The ways the remote writes of a call can fail, given the fields s the
\* call leaves when no write fails (a failed write is caught, so the call
\* attempts the same writes whichever of them fail).  Each write can fail on
\* its own, but the file a call leaves is the content of its last write that
\* succeeded, and the first write that fails is the first that could raise:
\* the choices "writes 1..j succeed, the later ones fail" give every outcome.
FailChoices(s) == { (j + 1)..s.nput : j \in 0..s.nput }

\* the most recent remote write failed: the file is not what it was given
LastPutFailed ==
  /\ puts # << >>
  /\ ~remote.exists \/ remote.content # puts[Len(puts)]

\* the object's fields after a call that left them as s
Commit(s) ==
  /\ buffer' = s.buffer
  /\ persisted_log' = s.persisted_log
  /\ remote' = s.remote
  /\ puts' = s.puts
  /\ appended' = s.appended
  /\ explicit' = s.explicit
  /\ escaped' = (escaped \/ s.raised)
  /\ recovered' = (recovered \/ (LastPutFailed /\ s.remote # remote))

-----------------------------------------------------------------------------
(***************************************************************************)
(* Failure classification.                                                 *)
(***************************************************************************)
\* variant: the first two rules swapped
classify_failure_Swapped(line) ==
  IF Contains("Database Error", line) THEN "DATABASE"
  ELSE IF Contains("Compilation Error", line) THEN "COMPILATION"
  ELSE IF Contains("Runtime Error", line) THEN "RUNTIME"
  ELSE IF Contains("FAIL", line) THEN "TEST_FAILURE"
  ELSE None

classify_failure(line) ==
  IF Contains("Compilation Error", line) THEN "COMPILATION"
  ELSE IF Contains("Database Error", line) THEN "DATABASE"
  ELSE IF Contains("Runtime Error", line) THEN "RUNTIME"
  ELSE IF Contains("FAIL", line) THEN "TEST_FAILURE"
  ELSE None

\* variant: no `if not self.failure_type' guard, the last match wins
Classified_LastWins(current, line) ==
  LET failure == classify_failure(line)
  IN IF failure # None THEN failure ELSE current

\* the read loop's update of self.failure_type after logging `line'
Classified(current, line) ==
  IF current = None
  THEN LET failure == classify_failure(line)
       IN IF failure # None THEN failure ELSE current
  ELSE current

(***************************************************************************)
(* finish(): the summary block and the final flush.                        *)
(***************************************************************************)
\* variant: the failure line is written unconditionally
FailureLine_Always(s, failure, now, fail) ==
  log(s, "Failure type: " \o failure, "ERROR", "\n", now, fail)

\* the `if self.failure_type:' line of the summary
FailureLine(s, failure, now, fail) ==
  IF failure # None
  THEN log(s, "Failure type: " \o failure, "ERROR", "\n", now, fail)
  ELSE s

finish(s, ok, failure, started, now, fail) ==
  LET duration == now - started
      s1 == log(s, "", "INFO", "\n", now, fail)
      s2 == log(s1, Separator, "INFO", "\n", now, fail)
      s3 == log(s2, "DBT Run Finished", "INFO", "\n", now, fail)
      s4 == log(s3, "Success: " \o PyStr(ok), "INFO", "\n", now, fail)
      s5 == log(s4, "Duration: " \o FormatDuration(duration), "INFO", "\n",
                now, fail)
      s6 == FailureLine(s5, failure, now, fail)
      s7 == log(s6, Separator, "INFO", "\n", now, fail)
  IN flush(s7, fail)

(***************************************************************************)
(* run() from process.wait() on, given the exit code.                      *)
(***************************************************************************)
\* variant: the flag is set from this run's exit code alone
SuccessAfter_Reset(ok, rc) == rc = 0

\* self.success after the `if return_code != 0' block
SuccessAfter(ok, rc) == IF rc # 0 THEN FALSE ELSE ok

\* variant: only positive exit codes are reported
ExitLine_PositiveOnly(s, rc, now, fail) ==
  IF rc > 0
  THEN log(s, "dbt exited with return code " \o ToString(rc), "ERROR", "\n",
           now, fail)
  ELSE s

\* the log call of the `if return_code != 0' block
ExitLine(s, rc, now, fail) ==
  IF rc # 0
  THEN log(s, "dbt exited with return code " \o ToString(rc), "ERROR", "\n",
           now, fail)
  ELSE s

\* variant: a failed run raises before finish()
RunTail_RaiseFirst(s, ok, failure, started, rc, now, fail) ==
  LET s1 == ExitLine(s, rc, now, fail)
      s2 == flush(s1, fail)
  IN IF rc # 0 THEN s2
     ELSE finish(s2, SuccessAfter(ok, rc), failure, started, now, fail)

\* the exit line, self.flush(), self.finish()
RunTail(s, ok, failure, started, rc, now, fail) ==
  LET s1 == ExitLine(s, rc, now, fail)
      s2 == flush(s1, fail)
  IN finish(s2, SuccessAfter(ok, rc), failure, started, now, fail)

\* variant: a classified failure also raises
Raises_OnFailure(ok, failure) == ~ok \/ failure # None

\* the `if not self.success: raise' at the end of run()
Raises(ok, failure) == ~ok

\* how a call of run() that reached process.wait() ends
Ending(s, ok, failure) ==
  IF s.raised THEN "sink_error"
  ELSE IF Raises(ok, failure) THEN "raised"
  ELSE "returned"

-----------------------------------------------------------------------------
(***************************************************************************)
(* DbtConfig (src/fabric_dbt_runner/config.py).  A value the caller passes *)
(* is absent, None, a string or a mapping; a mapping is the sequence of    *)
(* its key/value pairs in insertion order.                                 *)
(***************************************************************************)
Absent == [ tag |-> "absent", str |-> "", items |-> << >> ]
PyNone == [ tag |-> "none", str |-> "", items |-> << >> ]
PyString(t) == [ tag |-> "str", str |-> t, items |-> << >> ]
PyDict(pairs) == [ tag |-> "dict", str |-> "", items |-> pairs ]

ConfigKeys == {"project_dir", "profiles_dir", "target", "vars"}

NoOverrides == [ k \in ConfigKeys |-> Absent ]

NoConfig == [ project_dir |-> "", profiles_dir |-> "", target |-> "",
              vars |-> << >> ]

\* bool(value)
Truthy(v) ==
  \/ v.tag = "str" /\ v.str # ""
  \/ v.tag = "dict" /\ v.items # << >>

\* config_dict.get(key), and a keyword argument left at its default None
Get(d, key) == IF d[key].tag = "absent" THEN PyNone ELSE d[key]

RECURSIVE RStripSlash(_)
\* userhome.rstrip('/')
RStripSlash(t) ==
  IF Len(t) > 0 /\ SubSeq(t, Len(t), Len(t)) = "/"
  THEN RStripSlash(SubSeq(t, 1, Len(t) - 1))
  ELSE t

\* os.path.expanduser("~" + rest) on POSIX; without a home it returns the path
ExpandUser(rest, home) ==
  IF home = "None" THEN "~" \o rest
  ELSE LET expanded == RStripSlash(home) \o rest
       IN IF expanded = "" THEN "/" ELSE expanded

\* value or default, for strings
OrString(v, default) == IF Truthy(v) THEN v.str ELSE default

\* value or {}, for the vars mapping
OrDict(v) == IF Truthy(v) THEN v.items ELSE << >>

DefaultTarget == "dev"

\* DbtConfig.__init__
DbtConfig(project_dir, profiles_dir, target, dbt_vars, env) ==
  [ project_dir |-> OrString(project_dir, env.cwd),
    profiles_dir |-> OrString(profiles_dir, ExpandUser("/.dbt", env.home)),
    target |-> OrString(target, DefaultTarget),
    vars |-> OrDict(dbt_vars) ]

\* DbtConfig.from_dict
from_dict(d, env) ==
  DbtConfig(Get(d, "project_dir"), Get(d, "profiles_dir"), Get(d, "target"),
            Get(d, "vars"), env)

\* json.dumps of a scalar
JsonValue(v) ==
  IF v.kind = "int" THEN ToString(v.n) ELSE "\"" \o v.s \o "\""

RECURSIVE JsonItems(_)
JsonItems(pairs) ==
  IF pairs = << >> THEN ""
  ELSE LET item == "\"" \o Head(pairs)[1] \o "\": " \o JsonValue(Head(pairs)[2])
       IN IF Len(pairs) = 1 THEN item ELSE item \o ", " \o JsonItems(Tail(pairs))

\* json.dumps of a mapping
JsonDumps(pairs) == "{" \o JsonItems(pairs) \o "}"

\* variant: --vars is always emitted
VarsArgs_Always(dbt_vars) == << "--vars", JsonDumps(dbt_vars) >>

\* the `if self.vars:' block of get_dbt_args
VarsArgs(dbt_vars) ==
  IF dbt_vars # << >> THEN << "--vars", JsonDumps(dbt_vars) >> ELSE << >>

\* DbtConfig.get_dbt_args
get_dbt_args(c) ==
  (IF c.project_dir # "" THEN << "--project-dir", c.project_dir >> ELSE << >>)
  \o (IF c.profiles_dir # "" THEN << "--profiles-dir", c.profiles_dir >>
      ELSE << >>)
  \o (IF c.target # "" THEN << "--target", c.target >> ELSE << >>)
  \o VarsArgs(c.vars)

-----------------------------------------------------------------------------
(***************************************************************************)
(* The variable library (src/fabric_dbt_runner/variable_library.py).  A    *)
(* Python dict of strings is the sequence of its key/value pairs in        *)
(* insertion order.                                                        *)
(***************************************************************************)
\* text[i], or "" outside the text
Char(text, i) ==
  IF i >= 1 /\ i <= Len(text) THEN SubSeq(text, i, i) ELSE ""

UpperCase == "ABCDEFGHIJKLMNOPQRSTUVWXYZ"
LowerCase == "abcdefghijklmnopqrstuvwxyz"

\* the character c with the letters of `from' replaced by those of `to'
Translate(c, from, to) ==
  IF \E i \in 1..Len(from) : Char(from, i) = c
  THEN Char(to, CHOOSE i \in 1..Len(from) : Char(from, i) = c)
  ELSE c

RECURSIVE Lower(_)
\* text.lower()
Lower(text) ==
  IF text = "" THEN ""
  ELSE Translate(Char(text, 1), UpperCase, LowerCase)
       \o Lower(SubSeq(text, 2, Len(text)))

RECURSIVE Upper(_)
\* text.upper()
Upper(text) ==
  IF text = "" THEN ""
  ELSE Translate(Char(text, 1), LowerCase, UpperCase)
       \o Upper(SubSeq(text, 2, Len(text)))

\* text.startswith(prefix)
StartsWith(text, prefix) ==
  /\ Len(text) >= Len(prefix)
  /\ SubSeq(text, 1, Len(prefix)) = prefix

\* key in mapping
Has(pairs, key) == \E i \in 1..Len(pairs) : pairs[i][1] = key

\* mapping[key]
Lookup(pairs, key) == pairs[CHOOSE i \in 1..Len(pairs) : pairs[i][1] = key][2]

\* mapping[key] = value: a key already there keeps its place
DictSet(pairs, key, value) ==
  IF Has(pairs, key)
  THEN [ i \in 1..Len(pairs) |->
           IF pairs[i][1] = key THEN << key, value >> ELSE pairs[i] ]
  ELSE Append(pairs, << key, value >>)

\* VariableLibraryManager.__init__ with library_name None
DefaultLibraryName == "dbt_config"

RECURSIVE Collect(_, _, _)
\* the loop of load_from_fabric over os.environ.items()
Collect(items, prefix, variables) ==
  IF items = << >> THEN variables
  ELSE LET key == Head(items)[1]
           value == Head(items)[2]
       IN Collect(Tail(items), prefix,
                  IF StartsWith(key, prefix)
                  THEN DictSet(variables,
                               Lower(SubSeq(key, Len(prefix) + 1, Len(key))),
                               value)
                  ELSE variables)

\* VariableLibraryManager.load_from_fabric
load_from_fabric(library_name, env) ==
  Collect(env.variables, Upper(library_name) \o "_", << >>)

(***************************************************************************)
(* json.loads, for texts whose values are objects with string keys and     *)
(* integer or string members without escapes.  A result is ok or not (a    *)
(* JSONDecodeError), with the value parsed and the position after it.      *)
(***************************************************************************)
Digits == "0123456789"
IsDigit(c) == \E i \in 1..Len(Digits) : Char(Digits, i) = c
DigitValue(c) == (CHOOSE i \in 1..Len(Digits) : Char(Digits, i) = c) - 1
IsSpace(c) == c \in { " ", "\t", "\n", "\r" }

ParseError == [ ok |-> FALSE, value |-> IntVal(0), items |-> << >>, next |-> 0 ]

RECURSIVE SkipSpace(_, _)
\* the position of the first character from i on that is not whitespace
SkipSpace(text, i) ==
  IF IsSpace(Char(text, i)) THEN SkipSpace(text, i + 1) ELSE i

RECURSIVE StringEnd(_, _)
\* the position of the quote closing a string whose content starts at i;
\* 0 if the text ends or a control character comes before it
StringEnd(text, i) ==
  IF i > Len(text) \/ Char(text, i) \in { "\n", "\t", "\r", "\\" } THEN 0
  ELSE IF Char(text, i) = "\"" THEN i
  ELSE StringEnd(text, i + 1)

RECURSIVE ScanDigits(_, _, _)
\* the digits from i on, as a number continuing n
ScanDigits(text, i, n) ==
  IF IsDigit(Char(text, i))
  THEN ScanDigits(text, i + 1, 10 * n + DigitValue(Char(text, i)))
  ELSE [ n |-> n, next |-> i ]

\* an integer at i: an optional minus, then 0 or digits not starting with 0
ParseInt(text, i) ==
  LET negative == Char(text, i) = "-"
      first == IF negative THEN i + 1 ELSE i
      scan == ScanDigits(text, first, 0)
  IN IF ~IsDigit(Char(text, first)) THEN ParseError
     ELSE IF Char(text, first) = "0"
     THEN [ ok |-> TRUE, value |-> IntVal(0), items |-> << >>,
            next |-> first + 1 ]
     ELSE [ ok |-> TRUE,
            value |-> IntVal(IF negative THEN 0 - scan.n ELSE scan.n),
            items |-> << >>, next |-> scan.next ]

\* a string at i
ParseString(text, i) ==
  LET close == StringEnd(text, i + 1)
  IN IF Char(text, i) # "\"" \/ close = 0 THEN ParseError
     ELSE [ ok |-> TRUE, value |-> StrVal(SubSeq(text, i + 1, close - 1)),
            items |-> << >>, next |-> close + 1 ]

\* a member value at i
ParseScalar(text, i) ==
  IF Char(text, i) = "\"" THEN ParseString(text, i) ELSE ParseInt(text, i)

RECURSIVE ParseMembers(_, _, _)
\* the members of an object from i on, up to the closing brace
ParseMembers(text, i, items) ==
  LET key == ParseString(text, SkipSpace(text, i))
      colon == SkipSpace(text, key.next)
      member == ParseScalar(text, SkipSpace(text, colon + 1))
      after == SkipSpace(text, member.next)
      found == DictSet(items, key.value.s, member.value)
  IN IF ~key.ok \/ Char(text, colon) # ":" THEN ParseError
     ELSE IF ~member.ok THEN ParseError
     ELSE IF Char(text, after) = "}"
     THEN [ ok |-> TRUE, value |-> IntVal(0), items |-> found,
            next |-> after + 1 ]
     ELSE IF Char(text, after) = "," THEN ParseMembers(text, after + 1, found)
     ELSE ParseError

\* an object at i
ParseObject(text, i) ==
  IF Char(text, i) # "{" THEN ParseError
  ELSE IF Char(text, SkipSpace(text, i + 1)) = "}"
  THEN [ ok |-> TRUE, value |-> IntVal(0), items |-> << >>,
         next |-> SkipSpace(text, i + 1) + 1 ]
  ELSE ParseMembers(text, i + 1, << >>)

\* json.loads(text): the whole text is one object
json_loads(text) ==
  LET object == ParseObject(text, SkipSpace(text, 1))
  IN IF object.ok /\ SkipSpace(text, object.next) = Len(text) + 1
     THEN object
     ELSE ParseError

\* the result of load_dbt_config: an error leaving the call, or the mapping
Loaded(raised, mapping) == [ raised |-> raised, config |-> mapping ]

\* variant: no except clause, the decode error leaves load_dbt_config
VarsEntry_NoCatch(d, text) ==
  LET parsed == json_loads(text)
  IN IF parsed.ok
     THEN Loaded(FALSE, [ d EXCEPT !["vars"] = PyDict(parsed.items) ])
     ELSE Loaded(TRUE, d)

\* try: config["vars"] = json.loads(text); except JSONDecodeError: {}
VarsEntry(d, text) ==
  LET parsed == json_loads(text)
  IN IF parsed.ok
     THEN Loaded(FALSE, [ d EXCEPT !["vars"] = PyDict(parsed.items) ])
     ELSE Loaded(FALSE, [ d EXCEPT !["vars"] = PyDict(<< >>) ])

\* the `if key in variables' copy of one entry
Copied(variables, key) ==
  IF Has(variables, key) THEN PyString(Lookup(variables, key)) ELSE Absent

\* VariableLibraryManager.load_dbt_config
load_dbt_config(library_name, env) ==
  LET variables == load_from_fabric(library_name, env)
      d == [ k \in ConfigKeys |->
               IF k = "vars" THEN Absent ELSE Copied(variables, k) ]
  IN IF Has(variables, "vars")
     THEN VarsEntry(d, Lookup(variables, "vars"))
     ELSE Loaded(FALSE, d)

\* bool(var_config): the mapping has an entry
NonEmpty(d) == \E k \in ConfigKeys : d[k] # Absent

\* the `if config is None' block of DbtRunner.__init__ (runner.py)
AutoConfig(var_config, env) ==
  IF NonEmpty(var_config)
  THEN from_dict(var_config, env)
  ELSE DbtConfig(PyNone, PyNone, PyNone, PyNone, env)

-----------------------------------------------------------------------------
\* the DbtRunner object after __init__, with nothing written yet
RunnerInit(thresholds) ==
  /\ flush_every \in thresholds
  /\ buffer = << >>
  /\ persisted_log = ""
  /\ success = TRUE
  /\ failure_type = None
  /\ start_time = NoStartTime
  /\ pc = "idle"
  /\ outcome = "none"
  /\ return_code = 0
  /\ clock = 0
  /\ remote = NoFile
  /\ puts = << >>
  /\ appended = << >>
  /\ child = NoChild
  /\ fed = << >>
  /\ explicit = 0
  /\ escaped = FALSE
  /\ recovered = FALSE
  /\ calls = 0
  /\ runs = 0

ClassifyIdle ==
  /\ input_line = ""
  /\ category = "unset"

ConfigIdle ==
  /\ config_dict = NoOverrides
  /\ environ = [ cwd |-> "/", home |-> "None", variables |-> << >> ]
  /\ library_variables = << >>
  /\ config = NoConfig
  /\ args = << >>
  /\ cfg_pc = "input"

Init ==
  /\ RunnerInit(1..MaxFlushEvery)
  /\ ClassifyIdle
  /\ ConfigIdle

\* the owner calls log(message)
Log ==
  /\ pc = "idle"
  /\ calls < MaxCalls
  /\ \E message \in UserMessages :
       \E fail \in FailChoices(log(Self, message, "INFO", "\n", clock, {})) :
          Commit(log(Self, message, "INFO", "\n", clock, fail))
  /\ calls' = calls + 1
  /\ UNCHANGED << flush_every, success, failure_type, start_time, pc, outcome,
                  return_code, clock, child, fed, runs, classifyVars,
                  configVars >>

\* the owner calls flush()
Flush ==
  /\ pc = "idle"
  /\ calls < MaxCalls
  /\ \E fail \in FailChoices(flush(Self, {})) : Commit(flush(Self, fail))
  /\ calls' = calls + 1
  /\ UNCHANGED << flush_every, success, failure_type, start_time, pc, outcome,
                  return_code, clock, child, fed, runs, classifyVars,
                  configVars >>

\* run(cmd) up to the read loop: the child is spawned
RunStart ==
  /\ pc = "idle"
  /\ calls < MaxCalls
  /\ calls' = calls + 1
  /\ runs' = runs + 1
  /\ start_time' = clock
  /\ \E fail \in FailChoices(log(Self, "Starting dbt run", "INFO", "\n",
                                 clock, {})) :
       \E s \in { log(Self, "Starting dbt run", "INFO", "\n", clock, fail) } :
          /\ Commit(s)
          /\ pc' = IF s.raised THEN "idle" ELSE "reading"
          /\ outcome' = IF s.raised THEN "sink_error" ELSE "running"
  /\ child' \in Children
  /\ UNCHANGED << flush_every, success, failure_type, return_code, clock,
                  fed, classifyVars, configVars >>

\* run(cmd) when shlex.split or subprocess.Popen raises: the error leaves run
RunSpawnFail ==
  /\ pc = "idle"
  /\ calls < MaxCalls
  /\ calls' = calls + 1
  /\ runs' = runs + 1
  /\ start_time' = clock
  /\ \E fail \in FailChoices(log(Self, "Starting dbt run", "INFO", "\n",
                                 clock, {})) :
       \E s \in { log(Self, "Starting dbt run", "INFO", "\n", clock, fail) } :
          /\ Commit(s)
          /\ outcome' = IF s.raised THEN "sink_error" ELSE "spawn_error"
  /\ pc' = "idle"
  /\ UNCHANGED << flush_every, success, failure_type, return_code, clock,
                  child, fed, classifyVars, configVars >>

\* one iteration of `for line in process.stdout'
RunLine ==
  /\ pc = "reading"
  /\ child.output # << >>
  /\ LET line == Head(child.output)
     IN \E fail \in FailChoices(log(Self, line, "INFO", "", clock, {})) :
          \E s \in { log(Self, line, "INFO", "", clock, fail) } :
             /\ Commit(s)
             /\ fed' = Append(fed, line)
             /\ failure_type' = IF s.raised THEN failure_type
                                ELSE Classified(failure_type, line)
             /\ pc' = IF s.raised THEN "idle" ELSE pc
             /\ outcome' = IF s.raised THEN "sink_error" ELSE outcome
  /\ child' = [ child EXCEPT !.output = Tail(@) ]
  /\ UNCHANGED << flush_every, success, start_time, return_code, clock, calls,
                  runs, classifyVars, configVars >>

\* the stream ends: process.wait(), the exit line, flush, finish, raise
RunExit ==
  /\ pc = "reading"
  /\ child.output = << >>
  /\ clock' = clock + child.elapsed
  /\ LET rc == child.exit_code
     IN \E fail \in FailChoices(RunTail(Self, success, failure_type,
                                        start_time, rc, clock', {})) :
          \E s \in { RunTail(Self, success, failure_type, start_time, rc,
                             clock', fail) } :
             /\ Commit(s)
             /\ return_code' = rc
             /\ success' = SuccessAfter(success, rc)
             /\ outcome' = Ending(s, success', failure_type)
  /\ pc' = "idle"
  /\ UNCHANGED << flush_every, failure_type, start_time, child, fed, calls,
                  runs, classifyVars, configVars >>

Next ==
  \/ Log
  \/ Flush
  \/ RunStart
  \/ RunSpawnFail
  \/ RunLine
  \/ RunExit

Spec == Init /\ [][Next]_vars

-----------------------------------------------------------------------------
(***************************************************************************)
(* The classifier on its own: any input line, one call.                    *)
(***************************************************************************)
RECURSIVE Texts(_)
\* concatenations of at most n fragments
Texts(n) ==
  IF n <= 0 THEN { "" }
  ELSE { t \o f : t \in Texts(n - 1), f \in Fragments }

ClassifyInit ==
  /\ RunnerInit({1})
  /\ ConfigIdle
  /\ input_line \in Texts(MaxFragments)
  /\ category = "unset"

Classify ==
  /\ category = "unset"
  /\ category' = classify_failure(input_line)
  /\ UNCHANGED << input_line, runnerVars, configVars >>

ClassifyNext == Classify

ClassifySpec == ClassifyInit /\ [][ClassifyNext]_vars

-----------------------------------------------------------------------------
(***************************************************************************)
(* The config resolver on its own: any overrides, construction, rendering. *)
(***************************************************************************)
Overrides ==
  { d \in [ ConfigKeys -> {Absent, PyNone} \cup { PyString(t) : t \in DirValues \cup TargetValues }
                                          \cup { PyDict(v) : v \in VarsValues } ] :
      /\ d["project_dir"].tag # "dict" /\ d["project_dir"].str \in DirValues
      /\ d["profiles_dir"].tag # "dict" /\ d["profiles_dir"].str \in DirValues
      /\ d["target"].tag # "dict" /\ d["target"].str \in TargetValues
      /\ d["vars"].tag # "str" }

ConfigInit ==
  /\ RunnerInit({1})
  /\ ClassifyIdle
  /\ config_dict \in Overrides
  /\ environ \in [ cwd : CwdValues, home : HomeValues, variables : { << >> } ]
  /\ library_variables = << >>
  /\ config = NoConfig
  /\ args = << >>
  /\ cfg_pc = "input"

\* DbtConfig(**config_dict)
Construct ==
  /\ cfg_pc = "input"
  /\ config' = DbtConfig(Get(config_dict, "project_dir"),
                         Get(config_dict, "profiles_dir"),
                         Get(config_dict, "target"),
                         Get(config_dict, "vars"), environ)
  /\ cfg_pc' = "built"
  /\ UNCHANGED << config_dict, environ, library_variables, args, runnerVars,
                  classifyVars >>

\* DbtConfig.from_dict(config_dict)
FromDict ==
  /\ cfg_pc = "input"
  /\ config' = from_dict(config_dict, environ)
  /\ cfg_pc' = "built"
  /\ UNCHANGED << config_dict, environ, library_variables, args, runnerVars,
                  classifyVars >>

\* config.get_dbt_args()
GetDbtArgs ==
  /\ cfg_pc = "built"
  /\ args' = get_dbt_args(config)
  /\ cfg_pc' = "rendered"
  /\ UNCHANGED << config_dict, environ, library_variables, config,
                  runnerVars, classifyVars >>

ConfigNext == Construct \/ FromDict \/ GetDbtArgs

ConfigSpec == ConfigInit /\ [][ConfigNext]_vars

-----------------------------------------------------------------------------
(***************************************************************************)
(* The configuration taken from the variable library: any environment, a   *)
(* call of load_dbt_config, a DbtRunner built without a config, rendering. *)
(***************************************************************************)
LibraryInit ==
  /\ RunnerInit({1})
  /\ ClassifyIdle
  /\ config_dict = NoOverrides
  /\ environ \in [ cwd : CwdValues, home : HomeValues,
                   variables : Environments ]
  /\ library_variables = << >>
  /\ config = NoConfig
  /\ args = << >>
  /\ cfg_pc = "input"

\* VariableLibraryManager().load_dbt_config(); the result is kept in
\* config_dict
LoadDbtConfig ==
  /\ cfg_pc = "input"
  /\ library_variables' = load_from_fabric(DefaultLibraryName, environ)
  /\ LET loaded == load_dbt_config(DefaultLibraryName, environ)
     IN /\ config_dict' = loaded.config
        /\ cfg_pc' = IF loaded.raised THEN "error" ELSE "loaded"
  /\ UNCHANGED << environ, config, args, runnerVars, classifyVars >>

\* DbtRunner() of runner.py: no config given, var_config is kept in
\* config_dict and self.config in config
NewDbtRunner ==
  /\ cfg_pc \in { "input", "loaded" }
  /\ library_variables' = load_from_fabric(DefaultLibraryName, environ)
  /\ LET loaded == load_dbt_config(DefaultLibraryName, environ)
     IN /\ config_dict' = loaded.config
        /\ config' = IF loaded.raised THEN config
                     ELSE AutoConfig(loaded.config, environ)
        /\ cfg_pc' = IF loaded.raised THEN "error" ELSE "built"
  /\ UNCHANGED << environ, args, runnerVars, classifyVars >>

LibraryNext == LoadDbtConfig \/ NewDbtRunner \/ GetDbtArgs

LibrarySpec == LibraryInit /\ [][LibraryNext]_vars

-----------------------------------------------------------------------------
(***************************************************************************)
(* Properties.                                                             *)
(***************************************************************************)
\* text ends with suffix
EndsWith(text, suffix) ==
  /\ Len(text) >= Len(suffix)
  /\ SubSeq(text, Len(text) - Len(suffix) + 1, Len(text)) = suffix

\* a step in which a call of run() that was in its read loop ends
RunEnds == pc = "reading" /\ pc' = "idle"

\* the entries the current step appended to the log
NewEntries == SubSeq(appended', Len(appended) + 1, Len(appended'))

RECURSIVE FirstMatch(_)
\* the category of the first line that has one
FirstMatch(lines) ==
  IF lines = << >> THEN None
  ELSE IF classify_failure(Head(lines)) # None
       THEN classify_failure(Head(lines))
       ELSE FirstMatch(Tail(lines))

\* C1: failure_type is the category of the first line fed to the object that
\* has a category (None if no line has one), and once it is set no step
\* changes it.
C1_FirstMatchWins ==
  /\ [](failure_type = FirstMatch(fed))
  /\ [][failure_type # None => failure_type' = failure_type]_vars

\* two lines of different categories were fed; the first one's is recorded
C1_Witness ==
  /\ Len(fed) = 2
  /\ classify_failure(fed[1]) = "COMPILATION"
  /\ classify_failure(fed[2]) = "TEST_FAILURE"
  /\ failure_type = "COMPILATION"

\* C2: when the one run() of a session (a fresh object) has ended and the
\* child's exit code was 0, success is true and run() returned without
\* raising, whatever failure category was recorded.
C2_ExitZeroSucceeds ==
  (runs = 1 /\ pc = "idle" /\ outcome \in {"returned", "raised"}
     /\ return_code = 0)
  => (success /\ outcome = "returned")

\* a run whose output was classified as a failure and whose child exited 0
C2_Witness ==
  /\ runs = 1
  /\ outcome = "returned"
  /\ return_code = 0
  /\ failure_type = "COMPILATION"
  /\ success

\* the entry log() writes for the exit code c
IsExitLine(entry, c) ==
  EndsWith(entry, "] [ERROR] dbt exited with return code " \o ToString(c)
                    \o "\n")

\* the entry log() writes for a child line
IsChildEntry(entry) ==
  \E c \in Children : \E i \in 1..Len(c.output) :
     EndsWith(entry, "] [INFO] " \o c.output[i])

\* the summary block starts at index i of the log
SummaryStartsAt(i) ==
  /\ i + 2 <= Len(appended)
  /\ EndsWith(appended[i], "] \n")
  /\ EndsWith(appended[i + 1], "] " \o Separator \o "\n")
  /\ EndsWith(appended[i + 2], "Run Finished\n")

\* C3: when a run() has ended whose child exited with a nonzero code c,
\* success is false and the log holds an ERROR entry with exactly the code c
\* that comes after every child output line and directly before the summary
\* block.
C3_NonzeroExitLogged ==
  (pc = "idle" /\ outcome \in {"returned", "raised"} /\ return_code # 0)
  => /\ ~success
     /\ \E e \in 1..Len(appended) :
          /\ IsExitLine(appended[e], return_code)
          /\ \A c \in Children :
               c.exit_code # return_code
                 => ~IsExitLine(appended[e], c.exit_code)
          /\ \A i \in 1..Len(appended) : IsChildEntry(appended[i]) => i < e
          /\ SummaryStartsAt(e + 1)

\* a child that printed a line and was killed by a signal
C3_Witness ==
  /\ outcome = "raised"
  /\ return_code = -9
  /\ Len(fed) >= 1
  /\ ~success
  /\ \E e \in 1..Len(appended) :
        IsExitLine(appended[e], -9) /\ IsChildEntry(appended[e - 1])

\* C4: whenever a run() ends after its read loop, whatever the exit code, the
\* step has appended the summary block, the buffer is empty, the cumulative
\* log holds every entry including the block, and the last remote write was
\* attempted with exactly that log; a nonzero exit code ends the call with
\* the run-failed error, so the error reaches the caller with the block
\* already flushed.
C4_FinalizationAlwaysRuns ==
  [][ RunEnds =>
        /\ buffer' = << >>
        /\ \E i \in (Len(appended) + 1)..Len(appended') :
              EndsWith(appended'[i], "Run Finished\n")
        /\ EndsWith(appended'[Len(appended')], "] " \o Separator \o "\n")
        /\ persisted_log' = Join(appended')
        /\ Len(puts') > Len(puts)
        /\ puts'[Len(puts')] = persisted_log'
        /\ (return_code' # 0 => outcome' = "raised")
    ]_vars

\* a failed run ended with the error raised and the summary block written
\* to the remote file
C4_Witness ==
  /\ pc = "idle"
  /\ outcome = "raised"
  /\ return_code = 1
  /\ buffer = << >>
  /\ remote.exists
  /\ remote.content = Join(appended)
  /\ \E i \in 1..Len(appended) : SummaryStartsAt(i)

\* a step that is a direct call of flush() by the owner
FlushCall == calls' = calls + 1 /\ explicit' = explicit + 1 /\ runs' = runs

\* C5: a direct flush() on an empty buffer attempts no remote write and
\* leaves every field of the object as it was; and whenever the buffer is
\* empty (as it is after every flush) the cumulative log is the concatenation
\* of all entries appended so far, in order.
C5_FlushEmptyAndCumulative ==
  /\ [](buffer = << >> => persisted_log = Join(appended))
  /\ [][ (FlushCall /\ buffer = << >>) =>
            UNCHANGED << flush_every, buffer, persisted_log, success,
                         failure_type, start_time, remote, puts, appended >>
     ]_vars

\* log() flushed its one entry by itself (threshold 1) and the owner then
\* called flush() on the empty buffer: still one remote write, one entry
C5_Witness ==
  /\ runs = 0
  /\ calls = 2
  /\ explicit = 1
  /\ flush_every = 1
  /\ Len(appended) = 1
  /\ Len(puts) = 1
  /\ buffer = << >>
  /\ persisted_log = appended[1]

\* C6: as long as flush() was never called directly, fewer than flush_every
\* log calls leave the sink untouched, and the log call that makes the count
\* flush_every has caused exactly one remote write, whose content is all
\* flush_every entries in order, when it returns.
C6_AutoFlushAtThreshold ==
  explicit = 0 =>
    /\ (Len(appended) < flush_every => puts = << >>)
    /\ (Len(appended) = flush_every =>
          /\ Len(puts) = 1
          /\ puts[1] = Join(appended)
          /\ buffer = << >>)

\* the second of two log calls with threshold 2 wrote both entries
C6_Witness ==
  /\ explicit = 0
  /\ flush_every = 2
  /\ Len(appended) = 2
  /\ Len(puts) = 1
  /\ puts[1] = appended[1] \o appended[2]

\* C7: no sink error ever reaches a caller; reading a line never ends the
\* run; and when a run() ends after its read loop, success and the
\* raised/returned outcome are determined by the exit code (and the success
\* flag at entry) alone, whatever writes failed.
C7_SinkFailuresSwallowed ==
  /\ [](~escaped /\ outcome # "sink_error")
  /\ [][ (pc = "reading" /\ Len(fed') > Len(fed)) => pc' = "reading" ]_vars
  /\ [][ RunEnds =>
           /\ success' = (success /\ return_code' = 0)
           /\ outcome' = (IF success' THEN "returned" ELSE "raised")
           /\ \E i \in (Len(appended) + 1)..Len(appended') :
                 EndsWith(appended'[i], "Run Finished\n") ]_vars

\* every remote write of a run failed, yet the run read its lines, finished
\* and returned successfully
C7_Witness ==
  /\ runs = 1
  /\ outcome = "returned"
  /\ success
  /\ Len(fed) >= 1
  /\ Len(puts) > 1
  /\ ~remote.exists

\* C8: the result of classify_failure is decided by the first rule, in the
\* order Compilation Error, Database Error, Runtime Error, FAIL, whose marker
\* occurs in the line, and is None when no marker occurs; the call leaves the
\* session untouched.
C8_ClassifierRuleOrder ==
  /\ [](category # "unset" =>
          category =
            CASE Contains("Compilation Error", input_line) -> "COMPILATION"
              [] /\ ~Contains("Compilation Error", input_line)
                 /\ Contains("Database Error", input_line) -> "DATABASE"
              [] /\ ~Contains("Compilation Error", input_line)
                 /\ ~Contains("Database Error", input_line)
                 /\ Contains("Runtime Error", input_line) -> "RUNTIME"
              [] /\ ~Contains("Compilation Error", input_line)
                 /\ ~Contains("Database Error", input_line)
                 /\ ~Contains("Runtime Error", input_line)
                 /\ Contains("FAIL", input_line) -> "TEST_FAILURE"
              [] OTHER -> None)
  /\ [][category' # category => UNCHANGED runnerVars]_vars

\* a line with two markers, the later rule's marker first in the text
C8_Witness ==
  /\ input_line = "Database Error" \o "Compilation Error"
  /\ category = "COMPILATION"

\* the messages of the summary block for a success flag, a duration and a
\* failure category
SummaryMessages(ok, duration, failure) ==
  << "", "========================================", "DBT Run Finished",
     "Success: " \o (IF ok THEN "True" ELSE "False"),
     "Duration: " \o FormatDuration(duration) >>
  \o (IF failure # None THEN << "Failure type: " \o failure >> ELSE << >>)
  \o << "========================================" >>

\* the entries of the log from index `from' on carry exactly these messages
CarriesMessages(entries, messages) ==
  /\ Len(entries) = Len(messages)
  /\ \A i \in 1..Len(messages) :
        EndsWith(entries[i], "] " \o messages[i] \o "\n")

\* C9: the entries a run() appends after the exit line are exactly: a blank
\* line, a separator of 40 characters, the Run Finished header, the success
\* flag, the duration, a Failure type line if and only if a category is
\* recorded, and a separator of 40 characters; for the lines
\* "Compilation Error: syntax", "FAIL 3 tests" and exit code 1 they report
\* Failure type: COMPILATION and Success: False.
C9_SummaryBlock ==
  [][ RunEnds =>
        LET block == IF return_code' # 0 THEN Tail(NewEntries) ELSE NewEntries
        IN /\ CarriesMessages(block,
                SummaryMessages(success', clock' - start_time', failure_type'))
           /\ Len(block) = (IF failure_type' = None THEN 6 ELSE 7)
           /\ (/\ fed' = << "Compilation Error: syntax\n", "FAIL 3 tests\n" >>
               /\ return_code' = 1)
              => /\ EndsWith(block[4], "] Success: False\n")
                 /\ EndsWith(block[6], "] Failure type: COMPILATION\n")
    ]_vars

\* the example run has ended
C9_Witness ==
  /\ fed = << "Compilation Error: syntax\n", "FAIL 3 tests\n" >>
  /\ return_code = 1
  /\ outcome = "raised"
  /\ failure_type = "COMPILATION"
  /\ ~success
  /\ EndsWith(appended[Len(appended) - 1], "] Failure type: COMPILATION\n")
  /\ EndsWith(appended[Len(appended) - 3], "] Success: False\n")

\* the caller overrides nothing: every value is absent, None or empty
Defaulted(d) == \A k \in ConfigKeys : ~Truthy(d[k])

\* C10: a DbtConfig built from absent or empty overrides has target "dev",
\* no vars and non-empty directories; the arguments rendered from any built
\* config are --project-dir, --profiles-dir and --target with their values,
\* in this order, followed by --vars and one JSON value exactly when vars is
\* not empty.
C10_ConfigDefaultsAndArgs ==
  /\ (cfg_pc # "input" /\ Defaulted(config_dict)) =>
        /\ config.target = "dev"
        /\ config.vars = << >>
        /\ config.project_dir # ""
        /\ config.profiles_dir # ""
  /\ cfg_pc = "rendered" =>
        /\ SubSeq(args, 1, 6) =
             << "--project-dir", config.project_dir,
                "--profiles-dir", config.profiles_dir,
                "--target", config.target >>
        /\ (config.vars = << >> => Len(args) = 6)
        /\ (config.vars # << >> => Len(args) = 8 /\ args[7] = "--vars")
        /\ (config.vars = << << "day", IntVal(7) >> >>
              => args[8] = "{\"day\": 7}")
        /\ (config.vars = << << "env", StrVal("prod") >>,
                             << "day", IntVal(7) >> >>
              => args[8] = "{\"env\": \"prod\", \"day\": 7}")

\* the arguments of a config built with no overrides at all
C10_Witness ==
  /\ cfg_pc = "rendered"
  /\ config_dict = NoOverrides
  /\ environ.home = ""
  /\ args = << "--project-dir", environ.cwd, "--profiles-dir", "/.dbt",
               "--target", "dev" >>

\* the text of the library's vars variable in the environment, Unset if none
VarsText ==
  IF \E i \in 1..Len(environ.variables) :
        environ.variables[i][1] = "DBT_CONFIG_VARS"
  THEN Lookup(environ.variables, "DBT_CONFIG_VARS")
  ELSE Unset

\* C11: once load_dbt_config has run on a library whose vars text is not
\* valid JSON, no error has left the call, the loaded mapping has vars = {}
\* and carries the project_dir, profiles_dir and target entries exactly as
\* they were read from the library; and a DbtRunner built without a config
\* from it exists and has an empty vars mapping.  (A well-formed text is
\* loaded as the mapping it denotes, so it is the malformed text that is
\* degraded.)
C11_MalformedVarsDegrade ==
  /\ (cfg_pc # "input" /\ VarsText \in MalformedTexts) =>
        /\ cfg_pc # "error"
        /\ config_dict["vars"] = PyDict(<< >>)
        /\ \A k \in { "project_dir", "profiles_dir", "target" } :
              config_dict[k] = IF Has(library_variables, k)
                               THEN PyString(Lookup(library_variables, k))
                               ELSE Absent
        /\ (cfg_pc \in { "built", "rendered" } => config.vars = << >>)
  /\ (cfg_pc # "input" /\ VarsText = " {\"env\" :\"prod\",\n \"day\":7 } ") =>
        config_dict["vars"]
          = PyDict(<< << "env", StrVal("prod") >>, << "day", IntVal(7) >> >>)

\* a DbtRunner built from a library with a truncated vars text and a
\* project directory
C11_Witness ==
  /\ cfg_pc = "built"
  /\ VarsText = "{\"day\": 7"
  /\ Has(library_variables, "project_dir")
  /\ Lookup(library_variables, "project_dir") = "/proj"
  /\ config_dict["project_dir"] = PyString("/proj")
  /\ config_dict["vars"] = PyDict(<< >>)
  /\ config.project_dir = "/proj"
  /\ config.vars = << >>

\* a is a prefix of b
IsPrefix(a, b) == Len(a) <= Len(b) /\ SubSeq(b, 1, Len(a)) = a

\* C12: in every state the cumulative log followed by the buffered entries is
\* the concatenation of every entry logged so far, in order; the content of
\* every remote write extends the content of the write before it, failed or
\* not (hence of every earlier one), and the file holds the content of one
\* of them; so a write that
\* succeeds after a failed one writes content that starts with everything the
\* failed write carried, and with everything the file held before.
C12_NoLineLostOrDuplicated ==
  /\ [](persisted_log \o Join(buffer) = Join(appended))
  /\ [](\A i \in 1..(Len(puts) - 1) : IsPrefix(puts[i], puts[i + 1]))
  /\ [](remote.exists => \E i \in 1..Len(puts) : remote.content = puts[i])
  /\ [][ (LastPutFailed /\ remote' # remote) =>
            /\ remote'.exists
            /\ IsPrefix(puts[Len(puts)], remote'.content)
            /\ Len(remote'.content) > Len(puts[Len(puts)])
            /\ (remote.exists => IsPrefix(remote.content, remote'.content))
     ]_vars

\* a flush failed, a later one succeeded, and the file holds every entry
C12_Witness ==
  /\ recovered
  /\ Len(puts) >= 2
  /\ remote.exists
  /\ buffer = << >>
  /\ remote.content = Join(appended)
  /\ Len(appended) >= 2

\* a step of a run() that was called on an object whose success flag was
\* already false: an earlier run() on it exited nonzero
LaterRunStep == runs >= 2 /\ pc = "reading" /\ ~success

\* what no operation resets: a false success flag stays false, the cumulative
\* log only grows, and a later run that ends raises the run-failed error
\* whatever its child's exit code
StateKept ==
  /\ [][~success => ~success']_vars
  /\ [][IsPrefix(persisted_log, persisted_log')]_vars
  /\ [][ (LaterRunStep /\ RunEnds) => (~success' /\ outcome' = "raised") ]_vars

\* C13 as stated: success, failure_type and persisted_log are never reset, a
\* run() on an object whose earlier run exited nonzero raises even when its
\* child exits 0, and no step of that later run changes failure_type, so it
\* ends with the value the earlier run left.
C13_Original ==
  /\ StateKept
  /\ [][LaterRunStep => failure_type' = failure_type]_vars

\* C13, amended: as stated, except that the later run keeps the failure_type
\* of the earlier run only if the earlier run recorded a category; if it
\* recorded none, the later run may record one, and then it is the category
\* of the line it has just read.
C13_StateNeverReset ==
  /\ StateKept
  /\ [][ (LaterRunStep /\ failure_type # None)
            => failure_type' = failure_type ]_vars
  /\ [][ (LaterRunStep /\ failure_type' # failure_type) =>
            /\ failure_type = None
            /\ Len(fed') = Len(fed) + 1
            /\ failure_type' = classify_failure(fed'[Len(fed')]) ]_vars

\* a second run() whose child printed nothing and exited 0 raised, with the
\* category the first run recorded
C13_Witness ==
  /\ runs = 2
  /\ pc = "idle"
  /\ outcome = "raised"
  /\ return_code = 0
  /\ ~success
  /\ fed = << "Compilation Error: syntax\n", "FAIL 3 tests\n" >>
  /\ failure_type = "COMPILATION"

=============================================================================
